---- MODULE Spec2Model ----
(***************************************************************************)
(* A model of hugolgst/anki (src/main.go): the daily run that asks         *)
(* AnkiConnect for the cards reviewed today, classifies each card, and     *)
(* merges the word -> status map into a dated, TOML-like log file.         *)
(*                                                                         *)
(* Text is modelled as a sequence of one-character strings.  A date        *)
(* (the ten bytes "2006-01-02" of time.Format) is one character of Dates,  *)
(* so that the header "[<date>]" is the three characters "[", date, "]".   *)
(***************************************************************************)
EXTENDS Integers, Sequences, FiniteSets, TLC

(***************************************************************************)
(* Bytes and strings                                                       *)
(***************************************************************************)
NL == "\n"
QUOTE == "\""
BSLASH == "\\"

\* The CardStatus constants, as the bytes written to the file.
StatusNew == <<"n", "e", "w">>
StatusLearning == <<"l", "e", "a", "r", "n", "i", "n", "g">>
StatusReview == <<"r", "e", "v", "i", "e", "w">>
StatusRelearning == <<"r", "e">> \o StatusLearning
CardStatus == {StatusNew, StatusLearning, StatusReview, StatusRelearning}

\* s[lo:hi] of Go, offsets counted from 0.
Slice(s, lo, hi) == SubSeq(s, lo + 1, hi)

\* pat occurs in s at offset i (from 0).
HasAt(s, pat, i) ==
    /\ i + Len(pat) <= Len(s)
    /\ \A k \in 1..Len(pat) : s[i + k] = pat[k]

\* bytes.Index: the offset of the first occurrence of pat in s, or -1.
Index(s, pat) ==
    IF \E i \in 0..Len(s) : HasAt(s, pat, i)
    THEN CHOOSE i \in 0..Len(s) :
            HasAt(s, pat, i) /\ \A j \in 0..(i - 1) : ~HasAt(s, pat, j)
    ELSE -1

\* bytes.TrimRight(s, "\n")
RECURSIVE TrimRight(_)
TrimRight(s) ==
    IF Len(s) > 0 /\ s[Len(s)] = NL
    THEN TrimRight(SubSeq(s, 1, Len(s) - 1))
    ELSE s

\* strings.ReplaceAll(word, `"`, `\"`)
RECURSIVE Escape(_)
Escape(word) ==
    IF word = <<>> THEN <<>>
    ELSE (IF Head(word) = QUOTE THEN <<BSLASH, QUOTE>> ELSE <<Head(word)>>)
         \o Escape(Tail(word))

(***************************************************************************)
(* appendToTOML                                                            *)
(***************************************************************************)
\* fmt.Sprintf("[%s]", today)
DateHeader(d) == <<"[", d, "]">>

\* fmt.Sprintf("\"%s\" = \"%s\"\n", escaped, status)
EntryLine(word, status) ==
    <<QUOTE>> \o Escape(word) \o <<QUOTE, " ", "=", " ", QUOTE>> \o status
    \o <<QUOTE, NL>>

\* The section built by the range loop over cardMap.  Go leaves the order of
\* a map's iteration unspecified: order is the order this run of the loop
\* happened to visit the words in.
RECURSIVE EntryLines(_, _)
EntryLines(cardMap, order) ==
    IF order = <<>> THEN <<>>
    ELSE EntryLine(Head(order), cardMap[Head(order)])
         \o EntryLines(cardMap, Tail(order))

NewBlock(d, cardMap, order) ==
    DateHeader(d) \o <<NL>> \o EntryLines(cardMap, order)

\* The orders a range loop over a map with these keys can take.
Orders(keys) ==
    {o \in [1..Cardinality(keys) -> keys] :
        \A i, j \in 1..Cardinality(keys) : i # j => o[i] # o[j]}

\* CutToday with the old section left in the file.
CutToday_KeepsOld(existing, d) == TrimRight(existing)

\* existing after the old section was cut out (lines 199-211).
CutToday(existing, d) ==
    LET dateHeader == DateHeader(d)
        start == Index(existing, dateHeader)
    IN  IF start # -1
        THEN LET searchFrom == start + Len(dateHeader)
                 next == Index(Slice(existing, searchFrom, Len(existing)),
                               <<NL, "[">>)
                 end == IF next = -1 THEN Len(existing)
                        ELSE searchFrom + next + 1
             IN  TrimRight(Slice(existing, 0, start)
                           \o Slice(existing, end, Len(existing)))
        ELSE existing

\* The bytes handed to os.WriteFile (lines 188-218).
AppendToTOML(existing, d, cardMap, order) ==
    LET cut == CutToday(existing, d)
        sep == IF Len(cut) > 0 /\ cut[Len(cut)] # NL THEN cut \o <<NL>>
               ELSE cut
    IN  TrimRight(sep \o NewBlock(d, cardMap, order)) \o <<NL>>

(***************************************************************************)
(* Card classification: getFieldValue, getCardStatus, getCardInfo          *)
(***************************************************************************)
\* A decoded JSON value of cardInfo["queue"] / cardInfo["type"]: absent, a
\* number (float64), or anything else.  A number is kept in halves, so that
\* halves = 5 is 2.5 and halves = -1 is -0.5.
JAbsent == [kind |-> "absent", halves |-> 0]
JOther == [kind |-> "other", halves |-> 0]
JNumber(h) == [kind |-> "number", halves |-> h]

\* IntOf rounding down instead of toward zero.
IntOf_Floor(halves) == halves \div 2

\* int(queue): Go's conversion of a float64 truncates toward zero.
IntOf(halves) == IF halves >= 0 THEN halves \div 2 ELSE -((-halves) \div 2)

\* The "fields" object of a card record is a sequence of fields in the order
\* the record gives them; a field is [name, isString, value], value being
\* what fieldMap["value"].(string) yields when isString.
GetFieldValue(fields, fieldName) ==
    IF \E i \in DOMAIN fields :
            fields[i].name = fieldName /\ fields[i].isString
    THEN LET i == CHOOSE i \in DOMAIN fields :
                      fields[i].name = fieldName /\ fields[i].isString
         IN  fields[i].value
    ELSE <<>>

StatusOfCode(code) ==
    CASE code = 0 -> StatusNew
      [] code = 1 -> StatusLearning
      [] code = 2 -> StatusReview
      [] code = 3 -> StatusRelearning
      [] OTHER -> StatusReview

GetCardStatus(cardInfo) ==
    IF cardInfo.queue.kind = "number"
    THEN StatusOfCode(IntOf(cardInfo.queue.halves))
    ELSE IF cardInfo.type.kind = "number"
         THEN StatusOfCode(IntOf(cardInfo.type.halves))
         ELSE StatusReview

\* The values the fallback loop "for fieldName := range fields" can end on:
\* fields is a Go map, whose iteration order is unspecified, so the loop may
\* meet any field with a non-empty value first.
FallbackValues(fields) ==
    {GetFieldValue(fields, fields[i].name) : i \in DOMAIN fields} \ {<<>>}

\* WordValues without the precedence of the field named Word.
WordValues_NoPrecedence(fields) ==
    {GetFieldValue(fields, fields[i].name) : i \in DOMAIN fields} \ {<<>>}

WordValues(fields) ==
    IF GetFieldValue(fields, "Word") # <<>>
    THEN {GetFieldValue(fields, "Word")}
    ELSE FallbackValues(fields)

NoCard == [ok |-> FALSE, Word |-> <<>>, Status |-> <<>>]
OkCard(word, status) == [ok |-> TRUE, Word |-> word, Status |-> status]

\* The (Card, error) pairs getCardInfo can return for a cardsInfo response.
\* resp.kind: "connfail" (http.Post failed), "rpcerror" (undecodable body or
\* a non-null error), "notlist" (result no list, or an empty one),
\* "notobject" (cards[0] no object), "nofields" (fields no object), "card".
GetCardInfo(resp) ==
    IF resp.kind # "card" THEN {NoCard}
    ELSE IF WordValues(resp.fields) = {} THEN {NoCard}
    ELSE {OkCard(w, GetCardStatus(resp)) : w \in WordValues(resp.fields)}

(***************************************************************************)
(* Bounds and inputs                                                       *)
(***************************************************************************)
MaxMerges == 2      \* calls of appendToTOML explored after the starting file
MaxEntries == 2     \* words in a cardMap handed to appendToTOML
MaxCards == 3       \* card IDs findCards returns
MaxFields == 3      \* fields of a card record
MaxHalves == 9      \* queue/type codes run from -MaxNegHalves/2 to MaxHalves/2
MaxNegHalves == 3

\* The local dates time.Now() can give a run.
Dates == {"1", "2"}
NoDate == "0"

\* Words of cards: plain, with a double quote, with a backslash before a
\* quote, and one that mentions the date "2" in brackets.
WordA == <<"a">>
WordQuote == <<"h", QUOTE, "i", QUOTE>>
WordDate == <<"x", "[", "2", "]">>
MergeWords == {WordA, WordQuote, WordDate}
MergeStatuses == {StatusNew, StatusReview}

EmptyMap == <<>>
CardMaps ==
    UNION {[ks -> MergeStatuses] :
            ks \in {k \in SUBSET MergeWords :
                        k # {} /\ Cardinality(k) <= MaxEntries}}

\* Log files earlier runs left behind (each built by appendToTOML from an
\* absent file), and one a user laid out by hand: a blank line between the
\* sections and no newline at the end.
FileOfRuns ==
    LET r1 == AppendToTOML(<<>>, "2", (WordA :> StatusNew), <<WordA>>)
        r2 == AppendToTOML(r1, "1", (WordDate :> StatusNew), <<WordDate>>)
    IN  AppendToTOML(r2, "2", (WordA :> StatusReview), <<WordA>>)
FileByHand ==
    DateHeader("1") \o <<NL>> \o EntryLine(WordA, StatusNew) \o <<NL>>
    \o DateHeader("2") \o <<NL>>
    \o SubSeq(EntryLine(WordQuote, StatusReview), 1,
              Len(EntryLine(WordQuote, StatusReview)) - 1)
StartFiles == {<<>>, FileOfRuns, FileByHand}

\* What a failed os.WriteFile can leave: the old content (the open failed)
\* or a proper prefix of data (the file was truncated, the write stopped).
TornFiles(old, data) ==
    {old} \cup {SubSeq(data, 1, k) : k \in 0..(Len(data) - 1)}

FieldNames == {"Word", "Front", "Back"}
FieldValues ==
    {[isString |-> TRUE, value |-> <<>>], [isString |-> TRUE, value |-> WordA],
     [isString |-> TRUE, value |-> WordQuote],
     [isString |-> FALSE, value |-> <<>>]}
Field(n, v) == [name |-> n, isString |-> v.isString, value |-> v.value]
FieldLists ==
    UNION {{f \in [1..n -> {Field(nm, v) : nm \in FieldNames, v \in FieldValues}] :
                \A a, b \in 1..n : a # b => f[a].name # f[b].name} :
           n \in 0..MaxFields}
JValues ==
    {JAbsent, JOther} \cup {JNumber(h) : h \in (-MaxNegHalves)..MaxHalves}

NoResponse == [kind |-> "none", fields |-> <<>>, queue |-> JAbsent, type |-> JAbsent]
Failure(kind) == [kind |-> kind, fields |-> <<>>, queue |-> JAbsent, type |-> JAbsent]
FailureKinds == {"connfail", "rpcerror", "notlist", "notobject", "nofields"}
CardRecord(fields, queue, type) ==
    [kind |-> "card", fields |-> fields, queue |-> queue, type |-> type]

\* cardsInfo responses the classification is explored on.
CardsInfoResponses ==
    {Failure(k) : k \in FailureKinds}
    \cup {CardRecord(f, q, t) : f \in FieldLists, q \in JValues, t \in JValues}

\* cardsInfo responses a run is explored on.
RunResponses ==
    {Failure(k) : k \in FailureKinds}
    \cup {CardRecord(<<Field("Word", [isString |-> TRUE, value |-> w])>>, q, JAbsent) :
            w \in {WordA, WordQuote}, q \in {JNumber(0), JNumber(4)}}
    \cup {CardRecord(<<Field("Word", [isString |-> TRUE, value |-> <<>>]),
                       Field("Front", [isString |-> TRUE, value |-> WordA])>>,
                     JAbsent, JNumber(2)),
          CardRecord(<<Field("Word", [isString |-> FALSE, value |-> <<>>])>>,
                     JNumber(0), JAbsent)}

(***************************************************************************)
(* State                                                                   *)
(***************************************************************************)
VARIABLES
    file,           \* the content of the log file (<<>>: absent or empty)
    today,          \* the date of the last call of appendToTOML that wrote
    prevFile,       \* what that call read (existing)
    lastMap,        \* the cardMap it was given
    merges,         \* calls of appendToTOML so far
    repeated,       \* the last two calls had the same date and cardMap
    mergeFailed,    \* appendToTOML returned an error
    writes,         \* calls of os.WriteFile so far
    pc,             \* where main is
    exitCode,       \* the exit status, once pc = "done"
    nCards,         \* len(reviewedCardIDs)
    idx,            \* cards the loop has been through
    uniqueCards, processedCount, skippedCount, newWordCount,
    outcomes,       \* what getCardInfo returned for each card so far
    rpcLog,         \* the calls of invokeAnkiConnect and how each ended
    gitRun,         \* how gitAddCommit ended ("none": not called)
    commitMsg,      \* the counts of the message handed to "git commit"
    cardInfo,       \* the cardsInfo response getCardInfo last worked on
    card            \* what it returned

mergeVars == <<file, today, prevFile, lastMap, merges, repeated, mergeFailed, writes>>
runVars == <<pc, exitCode, nCards, idx, uniqueCards, processedCount,
             skippedCount, newWordCount, outcomes, rpcLog, gitRun, commitMsg>>
classifyVars == <<cardInfo, card>>
vars == <<mergeVars, runVars, classifyVars>>

NoMsg == [sent |-> FALSE, numReviews |-> 0, numNewWords |-> 0]

InitMergeVars ==
    /\ file \in StartFiles
    /\ today = NoDate
    /\ prevFile = <<>>
    /\ lastMap = EmptyMap
    /\ merges = 0
    /\ repeated = FALSE
    /\ mergeFailed = FALSE
    /\ writes = 0

InitRunVars ==
    /\ pc = "start"
    /\ exitCode = 0
    /\ nCards = 0
    /\ idx = 0
    /\ uniqueCards = EmptyMap
    /\ processedCount = 0
    /\ skippedCount = 0
    /\ newWordCount = 0
    /\ outcomes = <<>>
    /\ rpcLog = <<>>
    /\ gitRun = "none"
    /\ commitMsg = NoMsg

InitClassifyVars ==
    /\ cardInfo = NoResponse
    /\ card = NoCard

Init == InitMergeVars /\ InitRunVars /\ InitClassifyVars

(***************************************************************************)
(* appendToTOML as a step                                                  *)
(***************************************************************************)
\* A call that returns nil: the file is read, rebuilt and written whole.
MergeOk(d, cardMap, order) ==
    /\ file' = AppendToTOML(file, d, cardMap, order)
    /\ prevFile' = file
    /\ repeated' = (merges > 0 /\ today = d /\ lastMap = cardMap)
    /\ today' = d
    /\ lastMap' = cardMap
    /\ merges' = merges + 1
    /\ writes' = writes + 1
    /\ UNCHANGED mergeFailed

\* A call that returns an error: os.MkdirAll or os.ReadFile failed (nothing
\* is written), or os.WriteFile failed.
MergeError(d, cardMap, order) ==
    /\ \/ /\ file' = file
          /\ writes' = writes
       \/ /\ file' \in TornFiles(file, AppendToTOML(file, d, cardMap, order))
          /\ writes' = writes + 1
    /\ mergeFailed' = TRUE
    /\ merges' = merges + 1
    /\ UNCHANGED <<today, prevFile, lastMap, repeated>>

\* appendToTOML called on its own, with any non-empty cardMap on any date.
\* Its caller ends the process when it returns an error (log.Fatalf), so no
\* call follows one that failed.
Merge ==
    /\ merges < MaxMerges
    /\ ~mergeFailed
    /\ \E d \in Dates, cardMap \in CardMaps :
         \E order \in Orders(DOMAIN cardMap) : MergeOk(d, cardMap, order)
    /\ UNCHANGED <<runVars, classifyVars>>

MergeFails ==
    /\ merges < MaxMerges
    /\ ~mergeFailed
    /\ \E d \in Dates, cardMap \in CardMaps :
         \E order \in Orders(DOMAIN cardMap) : MergeError(d, cardMap, order)
    /\ UNCHANGED <<runVars, classifyVars>>

NextMerge == Merge \/ MergeFails
SpecMerge == Init /\ [][NextMerge]_vars

(***************************************************************************)
(* getCardInfo as a step                                                   *)
(***************************************************************************)
\* getCardInfo called on its own, once, on any cardsInfo response.
Classify ==
    /\ cardInfo = NoResponse
    /\ \E resp \in CardsInfoResponses :
         \E c \in GetCardInfo(resp) :
            /\ cardInfo' = resp
            /\ card' = c
    /\ UNCHANGED <<mergeVars, runVars>>

NextClassify == Classify
SpecClassify == Init /\ [][NextClassify]_vars

(***************************************************************************)
(* main                                                                    *)
(***************************************************************************)
\* log.Fatal / log.Fatalf: os.Exit(1)
Fatal ==
    /\ pc' = "done"
    /\ exitCode' = 1

\* Put keeping the status a word already has.
Put_KeepFirst(m, word, status) ==
    [w \in (DOMAIN m) \cup {word} |-> IF w \in DOMAIN m THEN m[w] ELSE status]

\* uniqueCards[word] = status
Put(m, word, status) ==
    [w \in (DOMAIN m) \cup {word} |-> IF w = word THEN status ELSE m[w]]

\* CountsAsNew without the alreadySeen test.
CountsAsNew_Every(m, c) == c.Status = StatusNew

\* !alreadySeen && card.Status == StatusNew
CountsAsNew(m, c) == c.Word \notin DOMAIN m /\ c.Status = StatusNew

\* HasCards without the test.
HasCards_Always(m) == TRUE

\* len(uniqueCards) > 0
HasCards(m) == DOMAIN m # {}

\* How invokeAnkiConnect ended for a cardsInfo response.
RpcResult(resp) ==
    IF resp.kind \in {"connfail", "rpcerror"} THEN resp.kind ELSE "ok"

\* Lines 245-248: the -o flag.
CheckFlag ==
    /\ pc = "start"
    /\ \E outputFilePath \in {"", "anki_stats.toml"} :
         IF outputFilePath = ""
         THEN Fatal
         ELSE pc' = "version" /\ UNCHANGED exitCode
    /\ UNCHANGED <<mergeVars, classifyVars, nCards, idx, uniqueCards,
                   processedCount, skippedCount, newWordCount, outcomes,
                   rpcLog, gitRun, commitMsg>>

\* Lines 250-265: the version call.
Version ==
    /\ pc = "version"
    /\ \E r \in {"connfail", "rpcerror", "ok"} :
         /\ rpcLog' = Append(rpcLog, <<"version", r>>)
         /\ IF r = "ok"
            THEN pc' = "findCards" /\ UNCHANGED exitCode
            ELSE Fatal
    /\ UNCHANGED <<mergeVars, classifyVars, nCards, idx, uniqueCards,
                   processedCount, skippedCount, newWordCount, outcomes,
                   gitRun, commitMsg>>

\* Lines 267-287: the findCards call; n is the length of the list returned.
FindCards ==
    /\ pc = "findCards"
    /\ \/ \E r \in {"connfail", "rpcerror", "notlist"} :
            /\ rpcLog' = Append(rpcLog, <<"findCards", r>>)
            /\ Fatal
            /\ UNCHANGED nCards
       \/ \E n \in 0..MaxCards :
            /\ rpcLog' = Append(rpcLog, <<"findCards", "list">>)
            /\ nCards' = n
            /\ pc' = "loop"
            /\ UNCHANGED exitCode
    /\ UNCHANGED <<mergeVars, classifyVars, idx, uniqueCards, processedCount,
                   skippedCount, newWordCount, outcomes, gitRun, commitMsg>>

\* Lines 288-307: one turn of the loop over reviewedCardIDs.
ProcessCard ==
    /\ pc = "loop"
    /\ idx < nCards
    /\ \E resp \in RunResponses :
         \E c \in GetCardInfo(resp) :
            /\ cardInfo' = resp
            /\ card' = c
            /\ rpcLog' = Append(rpcLog, <<"cardsInfo", RpcResult(resp)>>)
            /\ outcomes' = Append(outcomes, c)
            /\ IF ~c.ok
               THEN /\ skippedCount' = skippedCount + 1
                    /\ UNCHANGED <<uniqueCards, newWordCount, processedCount>>
               ELSE IF c.Word # <<>>
               THEN /\ uniqueCards' = Put(uniqueCards, c.Word, c.Status)
                    /\ newWordCount' = IF CountsAsNew(uniqueCards, c)
                                       THEN newWordCount + 1
                                       ELSE newWordCount
                    /\ processedCount' = processedCount + 1
                    /\ UNCHANGED skippedCount
               ELSE /\ skippedCount' = skippedCount + 1
                    /\ UNCHANGED <<uniqueCards, newWordCount, processedCount>>
    /\ idx' = idx + 1
    /\ UNCHANGED <<mergeVars, pc, exitCode, nCards, gitRun, commitMsg>>

\* Lines 309-316 and 333-335: after the loop, the log file is merged, or
\* there is nothing to log.
LogCards ==
    /\ pc = "loop"
    /\ idx = nCards
    /\ IF HasCards(uniqueCards)
       THEN \E d \in Dates, order \in Orders(DOMAIN uniqueCards) :
               \/ /\ MergeOk(d, uniqueCards, order)
                  /\ pc' = "git"
                  /\ UNCHANGED exitCode
               \/ /\ MergeError(d, uniqueCards, order)
                  /\ Fatal
       ELSE /\ pc' = "done"
            /\ UNCHANGED <<exitCode, mergeVars>>
    /\ UNCHANGED <<classifyVars, nCards, idx, uniqueCards, processedCount,
                   skippedCount, newWordCount, outcomes, rpcLog, gitRun,
                   commitMsg>>

\* Lines 330-332 and gitAddCommit: "git add", then "git commit -m" with the
\* counts; a failure of either is a warning, and main returns.
GitAddCommit ==
    /\ pc = "git"
    /\ \E r \in {"addfail", "commitfail", "ok"} :
         /\ gitRun' = r
         /\ commitMsg' = IF r = "addfail" THEN NoMsg
                         ELSE [sent |-> TRUE,
                               numReviews |-> Cardinality(DOMAIN uniqueCards),
                               numNewWords |-> newWordCount]
    /\ pc' = "done"
    /\ UNCHANGED <<mergeVars, classifyVars, exitCode, nCards, idx, uniqueCards,
                   processedCount, skippedCount, newWordCount, outcomes,
                   rpcLog>>

Next == CheckFlag \/ Version \/ FindCards \/ ProcessCard \/ LogCards \/ GitAddCommit
Spec == Init /\ [][Next]_vars

(***************************************************************************)
(* Reading a log file back: lines, header lines, entry lines, sections     *)
(***************************************************************************)
RECURSIVE SplitLines(_)
SplitLines(s) ==
    IF s = <<>> THEN <<>>
    ELSE IF \E i \in 1..Len(s) : s[i] = NL
         THEN LET i == CHOOSE i \in 1..Len(s) :
                          s[i] = NL /\ \A j \in 1..(i - 1) : s[j] # NL
              IN  <<SubSeq(s, 1, i - 1)>> \o SplitLines(SubSeq(s, i + 1, Len(s)))
         ELSE <<s>>

IsBlank(l) == l = <<>>
IsHeaderLine(l) == Len(l) = 3 /\ l[1] = "[" /\ l[2] \in Dates /\ l[3] = "]"

\* strings.ReplaceAll(s, `\"`, `"`), the inverse reading of Escape
RECURSIVE Unescape(_)
Unescape(s) ==
    IF s = <<>> THEN <<>>
    ELSE IF Len(s) >= 2 /\ s[1] = BSLASH /\ s[2] = QUOTE
         THEN <<QUOTE>> \o Unescape(SubSeq(s, 3, Len(s)))
         ELSE <<Head(s)>> \o Unescape(Tail(s))

\* every double quote of an escaped word follows a backslash
RECURSIVE QuotesEscaped(_)
QuotesEscaped(s) ==
    IF s = <<>> THEN TRUE
    ELSE IF Head(s) = QUOTE THEN FALSE
    ELSE IF Len(s) >= 2 /\ s[1] = BSLASH /\ s[2] = QUOTE
         THEN QuotesEscaped(SubSeq(s, 3, Len(s)))
         ELSE QuotesEscaped(Tail(s))

EntryTail(status) == <<QUOTE, " ", "=", " ", QUOTE>> \o status \o <<QUOTE>>

\* l is "<word>" = "<status>" for this status
EntryOf(l, status) ==
    /\ Len(l) >= 1 + Len(EntryTail(status))
    /\ l[1] = QUOTE
    /\ SubSeq(l, Len(l) - Len(EntryTail(status)) + 1, Len(l)) = EntryTail(status)
    /\ QuotesEscaped(SubSeq(l, 2, Len(l) - Len(EntryTail(status))))

IsEntryLine(l) == \E st \in CardStatus : EntryOf(l, st)

\* the (word, status) pairs a line reads as
PairsOfLine(l) ==
    {<<Unescape(SubSeq(l, 2, Len(l) - Len(EntryTail(st)))), st>> :
        st \in {t \in CardStatus : EntryOf(l, t)}}

RECURSIVE GroupSections(_, _)
GroupSections(lines, acc) ==
    IF lines = <<>> THEN acc
    ELSE LET l == Head(lines)
         IN  IF IsHeaderLine(l)
             THEN GroupSections(Tail(lines),
                                Append(acc, [header |-> l[2], entries |-> <<>>]))
             ELSE IF IsBlank(l) \/ acc = <<>>
             THEN GroupSections(Tail(lines), acc)
             ELSE GroupSections(Tail(lines),
                                [acc EXCEPT ![Len(acc)].entries = Append(@, l)])

\* The sections of a file in order: each a header date and its lines, blank
\* lines left out.
Sections(f) == GroupSections(SplitLines(f), <<>>)

\* The lines before the first header line.
RECURSIVE Preamble(_)
Preamble(lines) ==
    IF lines = <<>> \/ IsHeaderLine(Head(lines)) THEN <<>>
    ELSE (IF IsBlank(Head(lines)) THEN <<>> ELSE <<Head(lines)>>)
         \o Preamble(Tail(lines))

OtherSections(f, d) == SelectSeq(Sections(f), LAMBDA sec : sec.header # d)
SectionsOf(f, d) == SelectSeq(Sections(f), LAMBDA sec : sec.header = d)
Headers(f) == [k \in DOMAIN Sections(f) |-> Sections(f)[k].header]
LineSet(sec) == {sec.entries[k] : k \in DOMAIN sec.entries}

WellFormed(f) ==
    \A k \in DOMAIN SplitLines(f) :
        LET l == SplitLines(f)[k]
        IN  \/ IsBlank(l)
            \/ IsHeaderLine(l)
            \/ IsEntryLine(l) /\ \E j \in 1..(k - 1) : IsHeaderLine(SplitLines(f)[j])

PairsOfMap(cardMap) == {<<w, cardMap[w]>> : w \in DOMAIN cardMap}

\* the last call of appendToTOML returned nil
Merged == today # NoDate /\ ~mergeFailed

(***************************************************************************)
(* Claims about appendToTOML                                               *)
(***************************************************************************)
\* C1: a merge for today's date leaves every section whose header differs
\* from today's date unchanged, header line and entry lines, whatever the
\* words of its entries and however often today's section is merged again.
C1_OtherSectionsUnchanged ==
    Merged => OtherSections(file, today) = OtherSections(prevFile, today)

\* C2: merging the same entries on the same date a second time leaves
\* exactly one section for that date, with the same set of entry lines as
\* after the first call, and the rest of the file as after the first call.
C2_Idempotent ==
    (Merged /\ repeated) =>
        /\ Len(SectionsOf(file, today)) = 1
        /\ Len(SectionsOf(prevFile, today)) >= 1
        /\ LineSet(SectionsOf(file, today)[1]) = LineSet(SectionsOf(prevFile, today)[Len(SectionsOf(prevFile, today))])
        /\ OtherSections(file, today) = OtherSections(prevFile, today)

C4_RoundTrip ==
    Merged =>
        /\ Len(SectionsOf(file, today)) >= 1
        /\ UNION {PairsOfLine(l) : l \in LineSet(SectionsOf(file, today)[1])}
             = PairsOfMap(lastMap)
        /\ WellFormed(prevFile) => WellFormed(file)

\* the text pat occurs in the line l
Contains(l, pat) == \E i \in 0..Len(l) : HasAt(l, pat, i)

\* the number of the first line of f holding the text "[d]", or 0
FirstHit(f, d) ==
    LET ls == SplitLines(f)
        hits == {k \in DOMAIN ls : Contains(ls[k], DateHeader(d))}
    IN  IF hits = {} THEN 0
        ELSE CHOOSE k \in hits : \A j \in hits : k <= j

\* the place of the first section of date d among the sections
FirstSection(secs, d) ==
    CHOOSE k \in DOMAIN secs :
        secs[k].header = d /\ \A j \in 1..(k - 1) : secs[j].header # d

RemoveAt(seq, k) == SubSeq(seq, 1, k - 1) \o SubSeq(seq, k + 1, Len(seq))

\* sec is the freshly rendered section of the last merge
IsFresh(sec) ==
    /\ sec.header = today
    /\ Len(sec.entries) = Cardinality(DOMAIN lastMap)
    /\ \A l \in LineSet(sec) : IsEntryLine(l)
    /\ UNION {PairsOfLine(l) : l \in LineSet(sec)} = PairsOfMap(lastMap)

StringValue(f) == IF f.isString THEN f.value ELSE <<>>
NonEmptyFields(fields) == {i \in DOMAIN fields : StringValue(fields[i]) # <<>>}
WordFieldSet(fields) ==
    {i \in NonEmptyFields(fields) : fields[i].name = "Word"}
Classified == cardInfo.kind = "card"

\* C6 as stated: the word is the value of the field Word when that is a
\* non-empty string, otherwise the value of the first field, in the order
\* of the record, with a non-empty string value; the classification fails
\* exactly when no field has one.
C6_FirstFieldInOrder ==
    Classified =>
        LET fs == cardInfo.fields
            ne == NonEmptyFields(fs)
        IN  IF ne = {} THEN ~card.ok
            ELSE /\ card.ok
                 /\ IF WordFieldSet(fs) # {}
                    THEN \A i \in WordFieldSet(fs) : card.Word = fs[i].value
                    ELSE card.Word = fs[CHOOSE i \in ne : \A j \in ne : i <= j].value

\* C6, amended: without a non-empty Word field the word is the value of
\* some field with a non-empty string value, not necessarily the first.
C6_SomeNonEmptyField ==
    Classified =>
        LET fs == cardInfo.fields
            ne == NonEmptyFields(fs)
        IN  IF ne = {} THEN ~card.ok
            ELSE /\ card.ok
                 /\ IF WordFieldSet(fs) # {}
                    THEN \A i \in WordFieldSet(fs) : card.Word = fs[i].value
                    ELSE \E i \in ne : card.Word = fs[i].value

\* The fallback took the value of a field that is not the first non-empty one.
C6_Witness_LaterField ==
    /\ Classified
    /\ card.ok
    /\ WordFieldSet(cardInfo.fields) = {}
    /\ \E i, j \in NonEmptyFields(cardInfo.fields) :
         /\ i < j
         /\ cardInfo.fields[i].value # cardInfo.fields[j].value
         /\ card.Word = cardInfo.fields[j].value

\* the integer part of halves/2
Truncated(h) ==
    CHOOSE c \in (-(MaxNegHalves + 1))..(MaxHalves + 1) :
        IF h >= 0 THEN 2 * c <= h /\ h < 2 * c + 2
        ELSE 2 * c - 2 < h /\ h <= 2 * c

\* C7: the code is the numeric queue, else the numeric type, else the
\* status is review; truncated to an integer, 0 is new, 1 learning,
\* 2 review, 3 relearning and any other integer review.
C7_StatusOfQueue ==
    (Classified /\ card.ok) =>
        LET q == cardInfo.queue
            t == cardInfo.type
            coded == q.kind = "number" \/ t.kind = "number"
            code == Truncated(IF q.kind = "number" THEN q.halves ELSE t.halves)
        IN  /\ card.Status \in CardStatus
            /\ ~coded => card.Status = StatusReview
            /\ (coded /\ code = 0) => card.Status = StatusNew
            /\ (coded /\ code = 1) => card.Status = StatusLearning
            /\ (coded /\ code = 2) => card.Status = StatusReview
            /\ (coded /\ code = 3) => card.Status = StatusRelearning
            /\ (coded /\ code \notin {0, 1, 2, 3}) => card.Status = StatusReview

\* A card whose queue is no number and whose type is 3.5 came out relearning.
C7_Witness_TypeFallback ==
    /\ Classified
    /\ card.ok
    /\ cardInfo.queue.kind = "other"
    /\ cardInfo.type = JNumber(7)
    /\ card.Status = StatusRelearning

(***************************************************************************)
(* Claims about a run                                                      *)
(***************************************************************************)
Calls(action, result) ==
    {k \in DOMAIN rpcLog : rpcLog[k] = <<action, result>>}
ConnectionLost == \E k \in DOMAIN rpcLog : rpcLog[k][2] = "connfail"

\* C5: a connection failure of any RPC call of the run (version, findCards,
\* cardsInfo) ends the run at once with a non-zero exit status, and the log
\* file is not written.
C5_ConnectionFailureFatal ==
    ConnectionLost =>
        /\ pc = "done"
        /\ exitCode # 0
        /\ rpcLog[Len(rpcLog)][2] = "connfail"
        /\ writes = 0

\* C8: the log file is written at most once, only after the version call
\* and the findCards call succeeded and with a non-empty accumulator; with
\* an empty accumulator the run ends with status 0 and appendToTOML is not
\* called; git is run only after a merge that succeeded, and its failure
\* leaves the exit status 0.
C8_RunOrder ==
    /\ writes <= 1
    /\ merges <= 1
    /\ merges >= 1 =>
         /\ Calls("version", "ok") # {}
         /\ Calls("findCards", "list") # {}
         /\ DOMAIN uniqueCards # {}
         /\ idx = nCards
    /\ (pc = "done" /\ idx = nCards /\ Calls("findCards", "list") # {}
        /\ DOMAIN uniqueCards = {}) =>
         /\ exitCode = 0
         /\ merges = 0
         /\ writes = 0
    /\ gitRun # "none" =>
         /\ Merged
         /\ merges = 1
         /\ pc = "done"
         /\ exitCode = 0
    /\ mergeFailed => (pc = "done" /\ exitCode = 1 /\ gitRun = "none")

\* git failed after the log file was written, and the run ended with status 0.
C8_Witness_GitFailed ==
    /\ pc = "done"
    /\ gitRun = "commitfail"
    /\ writes = 1
    /\ exitCode = 0

\* the cards among the first n outcomes that were classified
OkUpTo(n) == {k \in 1..n : outcomes[k].ok}
\* the last of them that carries the word w
LastOf(w, n) ==
    CHOOSE k \in OkUpTo(n) :
        outcomes[k].Word = w /\ \A j \in OkUpTo(n) : outcomes[j].Word = w => j <= k
FirstOf(w, n) ==
    CHOOSE k \in OkUpTo(n) :
        outcomes[k].Word = w /\ \A j \in OkUpTo(n) : outcomes[j].Word = w => k <= j

\* C9: after any prefix of the card IDs the accumulator maps each word seen
\* to the status of the last classified card with that word, holds no empty
\* word and nothing of a card whose classification failed, and every card
\* of the prefix was counted once, as processed or as skipped.
C9_LastWriteWins ==
    LET n == Len(outcomes)
    IN  /\ n = idx
        /\ idx <= nCards
        /\ DOMAIN uniqueCards = {outcomes[k].Word : k \in OkUpTo(n)}
        /\ \A w \in DOMAIN uniqueCards : uniqueCards[w] = outcomes[LastOf(w, n)].Status
        /\ <<>> \notin DOMAIN uniqueCards
        /\ processedCount = Cardinality(OkUpTo(n))
        /\ skippedCount = n - Cardinality(OkUpTo(n))

\* Three cards: the first and the last carry the same word with different
\* statuses, the one between them failed.
C9_Witness_Overwritten ==
    /\ Len(outcomes) = 3
    /\ outcomes[1].ok /\ ~outcomes[2].ok /\ outcomes[3].ok
    /\ outcomes[1].Word = outcomes[3].Word
    /\ outcomes[1].Status # outcomes[3].Status
    /\ uniqueCards[outcomes[3].Word] = outcomes[3].Status
    /\ skippedCount = 1

LoopDone == pc \in {"git", "done"} /\ Calls("findCards", "list") # {}

\* C10 as stated: at the end of the loop the new-word count equals the
\* number of words of the accumulator whose status is new.
C10_CountsLoggedNew ==
    LoopDone =>
        newWordCount = Cardinality({w \in DOMAIN uniqueCards : uniqueCards[w] = StatusNew})

\* C10, amended: the new-word count equals the number of distinct words
\* whose first classified card of the run had status new, and that is the
\* count put in the commit message.
C10_CountsFirstSeenNew ==
    /\ newWordCount =
         Cardinality({w \in DOMAIN uniqueCards :
                        outcomes[FirstOf(w, Len(outcomes))].Status = StatusNew})
    /\ commitMsg.sent => commitMsg.numNewWords = newWordCount

\* A word first seen as new and then as review was counted as a new word
\* in the commit message, though it is logged as review.
C10_Witness_NewThenReview ==
    /\ commitMsg.sent
    /\ commitMsg.numNewWords = 1
    /\ \A w \in DOMAIN uniqueCards : uniqueCards[w] # StatusNew

====
